---- MODULE Spec2Model ----
(***************************************************************************)
(* A model of vggsfm/datasets/demo_loader.py: the DemoLoader dataset       *)
(* (directory scan, get_data, the parallel per-frame workers, the batch    *)
(* assembly and the ground-truth camera batch) and the module-level        *)
(* functions pad_and_resize_image, calculate_crop_parameters and           *)
(* _crop_image.                                                            *)
(*                                                                         *)
(* Python values are modelled as follows.                                  *)
(*   - a path string is a sequence of character codes; Python compares     *)
(*     strings code point by code point, a proper prefix being smaller;    *)
(*   - a numpy array is a record [h, w, ndim, px]: its first two           *)
(*     dimensions, its number of dimensions and its content per position   *)
(*     (y, x), 0-based, with src the file it was decoded from. A pixel     *)
(*     read from a file is <<y, x>>, its own source position; a padded     *)
(*     pixel is <<-1, bg>>;                                                *)
(*   - None is NoneVal and a raised exception is Raise(kind);              *)
(*   - a float computed by a division is an exact reduced fraction <<n, d>>;*)
(*     NaN, +infinity and -infinity are <<0, 0>>, <<1, 0>> and <<-1, 0>>;  *)
(*   - a 3 x 3 matrix is a tuple of three rows.                            *)
(***************************************************************************)
EXTENDS Integers, Sequences, FiniteSets, TLC

(***************************************************************************)
(* Bounds of the model.                                                    *)
(***************************************************************************)
\* number of image files in the scene directory
NumFiles == 2
\* longest explicit index subset `ids` passed to get_data
MaxIds == 2
\* largest height/width of an array handed to the crop functions
MaxDim == 3
\* how far a bounding box may reach outside [0, MaxDim]
MaxOut == 1
\* largest magnitude of a translation component read from the calibration
MaxT == 1
\* target resolution img_size (1024 by default in the program)
ImgSize == 2

VARIABLES
    cfg,        \* DemoLoader's flags: sort_by_filename, load_gt, have_mask, normalize_cameras
    listing,    \* what glob.glob returned: the image paths in enumeration order
    sequences,  \* self.sequences[bag_name]: the list of frame records (metadata)
    pc,         \* where the loader is: "new", "ready", "running", "returned", "raised"
    ids,        \* the ids argument of the current get_data call
    annos,      \* the frame records selected (and sorted) by get_data
    result,     \* per submitted task of the current call: Pending or the tuple its worker returned
    order,      \* the indices of the tasks in the order they completed
    overtook,   \* whether a task of the current call completed before one submitted earlier
    ret,        \* what get_data handed to its caller: (batch, image_paths), an exception, or nothing yet
    normalized, \* what normalize_cameras returned during the current call, None if it was not called
    crop,       \* the crop functions' call under test: inputs, position, output
    cam         \* the camera batch function's call under test: inputs, position, output

vars == <<cfg, listing, sequences, pc, ids, annos, result, order, overtook, ret, normalized, crop, cam>>

loaderVars == <<cfg, listing, sequences, pc, ids, annos, result, order, overtook, ret, normalized>>

(***************************************************************************)
(* Python values.                                                          *)
(***************************************************************************)
NoneVal == [none |-> TRUE]

IsNone(v) == "none" \in DOMAIN v

Raise(kind) == [exc |-> kind]

IsExc(v) == "exc" \in DOMAIN v

Max(a, b) == IF a >= b THEN a ELSE b

Min(a, b) == IF a <= b THEN a ELSE b

RECURSIVE Gcd(_, _)
Gcd(a, b) == IF b = 0 THEN a ELSE Gcd(b, a % b)

Abs(a) == IF a < 0 THEN -a ELSE a

\* the float n / d (d > 0), kept exact
Frac(n, d) ==
    LET g == Gcd(Abs(n), d)
    IN  IF n = 0 THEN <<0, 1>> ELSE <<n \div g, d \div g>>

(***************************************************************************)
(* numpy arrays.                                                           *)
(***************************************************************************)
Positions(h, w) == (0 .. h - 1) \X (0 .. w - 1)

\* the h x w array decoded from file src: ndim = 3 for a colour image
\* (cv2.IMREAD_COLOR), ndim = 2 for a mask (cv2.IMREAD_GRAYSCALE)
SourceArray(src, h, w, ndim) ==
    [src |-> src, h |-> h, w |-> w, ndim |-> ndim,
     px |-> [p \in Positions(h, w) |-> p]]

\* a[start:stop] on an axis of length n: the first index taken and the count
PyIndex(n, i) == IF i < 0 THEN Max(i + n, 0) ELSE Min(i, n)

SliceStart(n, start, stop) == PyIndex(n, start)

SliceLen(n, start, stop) == Max(PyIndex(n, stop) - PyIndex(n, start), 0)

\* image[start:stop]
SliceRows(a, start, stop) ==
    LET s == SliceStart(a.h, start, stop)
        n == SliceLen(a.h, start, stop)
    IN  [src |-> a.src, h |-> n, w |-> a.w, ndim |-> a.ndim,
         px |-> [p \in Positions(n, a.w) |-> a.px[<<p[1] + s, p[2]>>]]]

\* image[:, start:stop]
SliceCols(a, start, stop) ==
    LET s == SliceStart(a.w, start, stop)
        n == SliceLen(a.w, start, stop)
    IN  [src |-> a.src, h |-> a.h, w |-> n, ndim |-> a.ndim,
         px |-> [p \in Positions(a.h, n) |-> a.px[<<p[1], p[2] + s>>]]]

\* np.pad(a, pad_width, mode="constant", constant_values=bg), pad_width a
\* sequence of (before, after) pairs, one per axis: numpy broadcasts it to
\* (a.ndim, 2) and raises ValueError when it cannot
np_pad(a, pad_width, bg) ==
    IF Len(pad_width) # a.ndim
    THEN Raise("ValueError")
    ELSE LET t  == pad_width[1][1]
             l  == pad_width[2][1]
             nh == a.h + t + pad_width[1][2]
             nw == a.w + l + pad_width[2][2]
         IN  [src |-> a.src, h |-> nh, w |-> nw, ndim |-> a.ndim,
              px |-> [p \in Positions(nh, nw) |->
                        IF /\ p[1] >= t /\ p[1] < t + a.h
                           /\ p[2] >= l /\ p[2] < l + a.w
                        THEN a.px[<<p[1] - t, p[2] - l>>]
                        ELSE <<-1, bg>>]]

(***************************************************************************)
(* _crop_image(image, bbox, white_bg); bbox = <<left, top, right, bottom>> *)
(***************************************************************************)
CropRows(image, bbox, bg) ==
    LET h     == image.h
        new_h == bbox[4] - bbox[2]
        pad_t == (new_h - h) \div 2
        pad_b == new_h - h - pad_t
    IN  IF new_h > h
        THEN np_pad(image, <<<<pad_t, pad_b>>, <<0, 0>>, <<0, 0>>>>, bg)
        ELSE SliceRows(image, bbox[2], bbox[4])

CropCols(image, new_image, bbox, bg) ==
    LET w     == image.w
        new_w == bbox[3] - bbox[1]
        pad_l == (new_w - w) \div 2
        pad_r == new_w - w - pad_l
    IN  IF new_w > w
        THEN np_pad(new_image, <<<<0, 0>>, <<pad_l, pad_r>>, <<0, 0>>>>, bg)
        ELSE SliceCols(new_image, bbox[1], bbox[3])

_crop_image(image, bbox, white_bg) ==
    LET bg        == IF white_bg THEN 1 ELSE 0
        new_image == CropRows(image, bbox, bg)
    IN  IF IsExc(new_image) THEN new_image
        ELSE CropCols(image, new_image, bbox, bg)

(***************************************************************************)
(* calculate_crop_parameters(image, bbox, crop_dim, img_size): the eight   *)
(* floats of the crop descriptor. crop_center is computed by the program   *)
(* and never used.                                                         *)
(***************************************************************************)
calculate_crop_parameters(image, bbox, crop_dim, img_size) ==
    LET height == image.h
        width  == image.w
        length == Max(width, height)
        short  == Min(width, height)
    IN  [width      |-> Frac(width, 1),
         height     |-> Frac(height, 1),
         crop_width |-> Frac(2 * length * (bbox[3] - bbox[1]), short * length),
         s          |-> Frac(length, short),
         bbox_after |-> [i \in 1 .. 4 |-> Frac(bbox[i] * img_size, crop_dim)]]

(***************************************************************************)
(* transforms.Compose([ToTensor(), Resize(img_size, antialias=True)]):     *)
(* ToTensor turns an H x W x C array into C x H x W (one channel for a 2D  *)
(* array); Resize with an integer size scales the shorter edge to it. The  *)
(* tensor keeps the array it was made from as its content.                 *)
(***************************************************************************)
transform(a, img_size) ==
    IF a.h = 0 \/ a.w = 0 THEN Raise("RuntimeError")
    ELSE [c    |-> IF a.ndim = 3 THEN 3 ELSE 1,
          h    |-> IF a.h <= a.w THEN img_size ELSE (img_size * a.h) \div a.w,
          w    |-> IF a.h <= a.w THEN (img_size * a.w) \div a.h ELSE img_size,
          from |-> a]

(***************************************************************************)
(* pad_and_resize_image(image, crop_longest, img_size, mask, bbox_anno)    *)
(***************************************************************************)
\* CenterCropBox with a division that truncates towards zero
CenterCropBoxTruncating(h, w) ==
    LET crop_dim == Max(h, w)
        top      == 0 - ((crop_dim - h) \div 2)
        left     == 0 - ((crop_dim - w) \div 2)
    IN  <<left, top, left + crop_dim, top + crop_dim>>

\* lines 490-493: the square box of the center-crop mode
CenterCropBox(h, w) ==
    LET crop_dim == Max(h, w)
        top      == (h - crop_dim) \div 2
        left     == (w - crop_dim) \div 2
    IN  <<left, top, left + crop_dim, top + crop_dim>>

\* lines 498-510, once bbox and crop_dim are bound
CropAndTransform(image, bbox, crop_dim, img_size, mask) ==
    LET crop_paras == calculate_crop_parameters(image, bbox, crop_dim, img_size)
        cropped    == _crop_image(image, bbox, FALSE)
        image_t    == IF IsExc(cropped) THEN cropped ELSE transform(cropped, img_size)
        mcropped   == IF IsNone(mask) THEN NoneVal ELSE _crop_image(mask, bbox, FALSE)
        mask_t     == IF IsNone(mcropped) \/ IsExc(mcropped) THEN mcropped
                      ELSE transform(mcropped, img_size)
    IN  IF IsExc(image_t) THEN image_t
        ELSE IF IsExc(mask_t) THEN mask_t
        ELSE [image_transformed |-> image_t, mask_transformed |-> mask_t,
              crop_paras |-> crop_paras, bbox |-> bbox]

pad_and_resize_image(image, crop_longest, img_size, mask, bbox_anno) ==
    IF crop_longest
    THEN CropAndTransform(image, CenterCropBox(image.h, image.w),
                          Max(image.h, image.w), img_size, mask)
    ELSE IF IsNone(bbox_anno) THEN Raise("AssertionError")
    \* crop_dim is bound in the crop_longest branch only
    ELSE Raise("UnboundLocalError")

(***************************************************************************)
(* The crop functions on their own: SpecCrop draws an array and a bounding *)
(* box and applies _crop_image or pad_and_resize_image to them.            *)
(***************************************************************************)
Idle == [pc |-> "idle"]

Dims == 1 .. MaxDim

Coords == (0 - MaxOut) .. (MaxDim + MaxOut)

\* integer boxes <<left, top, right, bottom>> with right > left, bottom > top
Boxes == {b \in Coords \X Coords \X Coords \X Coords : b[3] > b[1] /\ b[4] > b[2]}

NoPath == <<>>

InitCrop ==
    /\ crop \in {[pc |-> "input", image |-> SourceArray(NoPath, h, w, nd),
                   bbox |-> b, white_bg |-> wb] :
                     h \in Dims, w \in Dims, nd \in {2, 3}, b \in Boxes,
                     wb \in BOOLEAN}
    /\ cam = Idle
    /\ cfg = Idle /\ listing = <<>> /\ sequences = <<>> /\ pc = "idle"
    /\ ids = NoneVal /\ annos = <<>> /\ result = <<>> /\ order = <<>>
    /\ overtook = FALSE /\ ret = NoneVal /\ normalized = NoneVal

\* a call _crop_image(image, bbox, white_bg)
CallCropImage ==
    /\ crop.pc = "input"
    /\ crop' = [pc |-> "cropped", image |-> crop.image, bbox |-> crop.bbox,
                white_bg |-> crop.white_bg,
                out |-> _crop_image(crop.image, crop.bbox, crop.white_bg)]
    /\ UNCHANGED <<cam, loaderVars>>

\* a call pad_and_resize_image(image, crop_longest, img_size, mask, bbox_anno)
\* on a decoded colour image, with no mask or with its grayscale mask
CallPadAndResize ==
    /\ crop.pc = "input"
    /\ crop.image.ndim = 3
    /\ \E crop_longest \in BOOLEAN :
       \E mask \in {NoneVal, SourceArray(NoPath, crop.image.h, crop.image.w, 2)} :
       \E bbox_anno \in {NoneVal, [box |-> crop.bbox]} :
          crop' = [pc |-> "resized", image |-> crop.image, bbox |-> crop.bbox,
                   white_bg |-> crop.white_bg, crop_longest |-> crop_longest,
                   mask |-> mask, bbox_anno |-> bbox_anno,
                   out |-> pad_and_resize_image(crop.image, crop_longest,
                                                ImgSize, mask, bbox_anno)]
    /\ UNCHANGED <<cam, loaderVars>>

NextCrop == CallCropImage \/ CallPadAndResize

SpecCrop == InitCrop /\ [][NextCrop]_vars

(***************************************************************************)
(* Claims about the crop functions, checked under SpecCrop.                *)
(***************************************************************************)
CropBoxH == crop.bbox[4] - crop.bbox[2]

CropBoxW == crop.bbox[3] - crop.bbox[1]

\* the box and the image share at least one pixel
BoxMeetsImage ==
    /\ crop.bbox[1] < crop.image.w /\ crop.bbox[3] > 0
    /\ crop.bbox[2] < crop.image.h /\ crop.bbox[4] > 0

\* C5: in center-crop mode the bounding box pad_and_resize_image returns is
\* square with side max(w, h), with left = floor((w - side) / 2) and
\* top = floor((h - side) / 2); the floor is stated by its bounds,
\* 2 * left <= w - side < 2 * left + 2.
C5_CenterCropBox ==
    (crop.pc = "resized" /\ crop.crop_longest /\ ~IsExc(crop.out)) =>
        LET h    == crop.image.h
            w    == crop.image.w
            side == IF w >= h THEN w ELSE h
            b    == crop.out.bbox
        IN  /\ 2 * b[1] <= w - side /\ w - side < 2 * b[1] + 2
            /\ 2 * b[2] <= h - side /\ h - side < 2 * b[2] + 2
            /\ b[3] - b[1] = side
            /\ b[4] - b[2] = side

\* C5's case: a center crop of an image whose sides differ by an odd number
C5_Witness ==
    /\ crop.pc = "resized" /\ crop.crop_longest /\ ~IsExc(crop.out)
    /\ (crop.image.w - crop.image.h) % 2 = 1
    /\ crop.out.bbox[2] < 0

\* C6 as claimed: for every 3-dimensional source array and every box with
\* right > left and bottom > top that lies inside or partly outside the
\* image, _crop_image returns without error an array of exactly
\* (bottom - top) rows and (right - left) columns.
C6_CropImageBoxSized ==
    (crop.pc = "cropped" /\ crop.image.ndim = 3 /\ BoxMeetsImage) =>
        /\ ~IsExc(crop.out)
        /\ crop.out.h = CropBoxH
        /\ crop.out.w = CropBoxW

\* C10 as claimed: for a 2-dimensional mask array and a box larger than the
\* mask along an axis, _crop_image returns a box-sized array without raising.
C10_CropMaskPads ==
    (/\ crop.pc = "cropped" /\ crop.image.ndim = 2 /\ BoxMeetsImage
     /\ (CropBoxH > crop.image.h \/ CropBoxW > crop.image.w)) =>
        /\ ~IsExc(crop.out)
        /\ crop.out.h = CropBoxH
        /\ crop.out.w = CropBoxW

\* C11 as claimed: in explicit-bounding-box mode (crop_longest false,
\* bbox_anno given) pad_and_resize_image completes without error and returns
\* the crop descriptor, the cropped-and-resized image and the given box.
C11_ExplicitBoxCompletes ==
    (crop.pc = "resized" /\ ~crop.crop_longest /\ ~IsNone(crop.bbox_anno)) =>
        /\ ~IsExc(crop.out)
        /\ crop.out.bbox = crop.bbox_anno.box
        /\ DOMAIN crop.out.crop_paras =
             {"width", "height", "crop_width", "s", "bbox_after"}
        /\ crop.out.image_transformed.from.src = crop.image.src

\* the content the claim C12 gives position p of a square array cropped from
\* image by the box bbox: the source pixel (x, y) with (x - left, y - top) = p
\* when the image has one, the background otherwise
PlacedByBox(image, bbox, p) ==
    LET y == p[1] + bbox[2]
        x == p[2] + bbox[1]
    IN  IF y >= 0 /\ y < image.h /\ x >= 0 /\ x < image.w
        THEN <<y, x>>
        ELSE <<-1, 0>>

\* C12 as claimed: in center-crop mode, for every image height h and width
\* w, the square array produced by _crop_image holds source pixel (x, y) at
\* position (x - left, y - top), [left, top, right, bottom] being the box
\* returned with it, and the background value at every other position.
C12_CropOffsetIsBoxOffset ==
    (crop.pc = "resized" /\ crop.crop_longest /\ ~IsExc(crop.out)) =>
        LET cropped == crop.out.image_transformed.from
        IN  \A p \in Positions(cropped.h, cropped.w) :
                cropped.px[p] = PlacedByBox(crop.image, crop.out.bbox, p)

(***************************************************************************)
(* Cameras: _prepare_gt_camera_batch and the functions it calls.           *)
(***************************************************************************)
NaN == <<0, 0>>

PosInf == <<1, 0>>

NegInf == <<-1, 0>>

Identity3 == <<<<1, 0, 0>>, <<0, 1, 0>>, <<0, 0, 1>>>>

\* a batch tensor: n, its leading dimension, and its n entries
Tensor(entries) == [n |-> Len(entries), items |-> entries]

\* torch.stack(tensors) and torch.cat of tensors[None]: a new leading
\* dimension over a non-empty list of tensors
stack(tensors) ==
    IF tensors = <<>> THEN Raise("RuntimeError: stack expects a non-empty TensorList")
    ELSE Tensor(tensors)

\* batchR.clone().permute(0, 2, 1) for one frame
Transpose(R) == [i \in 1 .. 3 |-> [j \in 1 .. 3 |-> R[j][i]]]

\* ConvertR without the sign flip of the first two columns
ConvertRNoFlip(R) == Transpose(R)

\* lines 385 and 387: transpose, then batchR[:, :, :2] *= -1
ConvertR(R) ==
    [i \in 1 .. 3 |-> [j \in 1 .. 3 |->
        IF j <= 2 THEN 0 - Transpose(R)[i][j] ELSE Transpose(R)[i][j]]]

\* lines 386 and 388: batchT[:, :2] *= -1
ConvertT(T) == [j \in 1 .. 3 |-> IF j <= 2 THEN 0 - T[j] ELSE T[j]]

\* PerspectiveCameras(focal_length, principal_point, R, T): keeps its arguments
PerspectiveCameras(focal_length, principal_point, R, T) ==
    [focal_length |-> focal_length, principal_point |-> principal_point,
     R |-> R, T |-> T]

IsCameras(v) == "T" \in DOMAIN v

\* the failure value of normalize_cameras, which the caller compares with -1
MinusOne == [minus_one |-> TRUE]

\* How a normalization of n cameras can go: the scale is zero, or it is not
\* and at most one translation component comes out non-finite.
NormReports(n) ==
    {[zero_scale |-> TRUE, bad |-> NoneVal]} \cup
    {[zero_scale |-> FALSE, bad |-> b] :
        b \in {NoneVal} \cup
              {[frame |-> i, comp |-> j, value |-> v] :
                  i \in 1 .. n, j \in 1 .. 3, v \in {NaN, PosInf, NegInf}}}

\* normalize_cameras(cameras, points=None), with report how the
\* normalization goes; the finite translations are left as they are
normalize_cameras(cameras, report) ==
    IF report.zero_scale THEN MinusOne
    ELSE [focal_length    |-> cameras.focal_length,
          principal_point |-> cameras.principal_point,
          R |-> cameras.R,
          T |-> Tensor([i \in 1 .. cameras.T.n |-> [j \in 1 .. 3 |->
                  IF /\ ~IsNone(report.bad)
                     /\ report.bad.frame = i /\ report.bad.comp = j
                  THEN report.bad.value
                  ELSE Frac(cameras.T.items[i][j], 1)]])]

\* the zero-scale test with the comparison left out
NormalizationFailedNever(normalized_cameras) == FALSE

\* line 399: normalized_cameras == -1
NormalizationFailed(normalized_cameras) == normalized_cameras = MinusOne

\* torch.all in place of torch.any
AllNaN(T) == \A i \in 1 .. T.n : \A j \in 1 .. 3 : T.items[i][j] = NaN

\* line 411: torch.any(torch.isnan(batch["T"]))
AnyNaN(T) == \E i \in 1 .. T.n : \E j \in 1 .. 3 : T.items[i][j] = NaN

ZeroScaleError == Raise("RuntimeError: Error in normalizing cameras: camera scale was 0")

NaNError == Raise("RuntimeError: NaN values found in camera translations")

\* lines 379-395: the raw batch converted from OpenCV/COLMAP to PyTorch3D
GtCameras(annos_, new_fls, new_pps) ==
    PerspectiveCameras(new_fls, new_pps,
                       Tensor([i \in 1 .. Len(annos_) |-> ConvertR(annos_[i].R)]),
                       Tensor([i \in 1 .. Len(annos_) |-> ConvertT(annos_[i].T)]))

\* lines 397-412, given what normalize_cameras returned
NormalizedBatch(raw, n) ==
    IF NormalizationFailed(n) THEN ZeroScaleError
    \* -1 has no attribute R
    ELSE IF ~IsCameras(n) THEN Raise("AttributeError")
    ELSE IF AnyNaN(n.T) THEN NaNError
    ELSE [rawR |-> raw.rawR, rawT |-> raw.rawT, R |-> n.R, T |-> n.T,
          fl |-> n.focal_length, pp |-> n.principal_point]

\* _prepare_gt_camera_batch(annos, new_fls, new_pps): out is the dict it
\* returns or the exception it raises, normalized what normalize_cameras
\* returned to it (None when it was not called)
_prepare_gt_camera_batch(annos_, new_fls, new_pps, normalize, report) ==
    LET fls     == stack(new_fls)
        raw     == [rawR |-> Tensor([i \in 1 .. Len(annos_) |-> annos_[i].R]),
                    rawT |-> Tensor([i \in 1 .. Len(annos_) |-> annos_[i].T])]
        cameras == GtCameras(annos_, fls, stack(new_pps))
        n       == normalize_cameras(cameras, report)
    IN  IF IsExc(fls) THEN [out |-> fls, normalized |-> NoneVal]
        ELSE IF normalize
        THEN [out |-> NormalizedBatch(raw, n), normalized |-> n]
        ELSE [out |-> [rawR |-> raw.rawR, rawT |-> raw.rawT,
                       R |-> cameras.R, T |-> cameras.T,
                       fl |-> cameras.focal_length,
                       pp |-> cameras.principal_point],
              normalized |-> NoneVal]

(***************************************************************************)
(* The camera batch on its own: SpecCam draws the calibration of a frame   *)
(* and applies _prepare_gt_camera_batch to a batch holding it.             *)
(***************************************************************************)
Det3(R) ==
      R[1][1] * (R[2][2] * R[3][3] - R[2][3] * R[3][2])
    - R[1][2] * (R[2][1] * R[3][3] - R[2][3] * R[3][1])
    + R[1][3] * (R[2][1] * R[3][2] - R[2][2] * R[3][1])

Units == {<<1, 0, 0>>, <<0, 1, 0>>, <<0, 0, 1>>,
          <<-1, 0, 0>>, <<0, -1, 0>>, <<0, 0, -1>>}

\* the rotations that map the axes onto each other
Rotations == {R \in Units \X Units \X Units : Det3(R) = 1}

Translations == ((0 - MaxT) .. MaxT) \X ((0 - MaxT) .. MaxT) \X ((0 - MaxT) .. MaxT)

\* a frame's calibration record holding the identity pose
RefAnno ==
    [R |-> Identity3, T |-> <<0, 0, 0>>,
     focal_length |-> <<1, 1>>, principal_point |-> <<0, 0>>]

InitCam ==
    /\ cam \in {[pc |-> "input",
                  annos |-> [i \in 1 .. n |->
                               IF i = 1 THEN [RefAnno EXCEPT !.R = R, !.T = T]
                               ELSE RefAnno],
                  normalize |-> nz] :
                    R \in Rotations, T \in Translations, n \in 1 .. 2,
                    nz \in BOOLEAN}
    /\ crop = Idle
    /\ cfg = Idle /\ listing = <<>> /\ sequences = <<>> /\ pc = "idle"
    /\ ids = NoneVal /\ annos = <<>> /\ result = <<>> /\ order = <<>>
    /\ overtook = FALSE /\ ret = NoneVal /\ normalized = NoneVal

\* a call _prepare_gt_camera_batch(annos, new_fls, new_pps)
CallPrepareGtCameraBatch ==
    /\ cam.pc = "input"
    /\ \E report \in NormReports(Len(cam.annos)) :
         LET fls == [i \in 1 .. Len(cam.annos) |-> cam.annos[i].focal_length]
             pps == [i \in 1 .. Len(cam.annos) |-> cam.annos[i].principal_point]
             got == _prepare_gt_camera_batch(cam.annos, fls, pps,
                                             cam.normalize, report)
         IN  cam' = [pc |-> "done", annos |-> cam.annos,
                     normalize |-> cam.normalize,
                     normalized |-> got.normalized, out |-> got.out]
    /\ UNCHANGED <<crop, loaderVars>>

NextCam == CallPrepareGtCameraBatch

SpecCam == InitCam /\ [][NextCam]_vars

\* C7 as claimed: the conversion of an identity rotation and a zero
\* translation yields an identity rotation and a zero translation.
C7_IdentityFixedPoint ==
    (/\ cam.pc = "done" /\ ~cam.normalize
     /\ cam.annos[1].R = Identity3 /\ cam.annos[1].T = <<0, 0, 0>>) =>
        /\ cam.out.R.items[1] = Identity3
        /\ cam.out.T.items[1] = <<0, 0, 0>>

\* C7 as amended: the conversion of an identity rotation and a zero
\* translation yields the rotation diag(-1, -1, 1) and a zero translation.
C7_IdentityConverted ==
    (/\ cam.pc = "done" /\ ~cam.normalize
     /\ cam.annos[1].R = Identity3 /\ cam.annos[1].T = <<0, 0, 0>>) =>
        /\ cam.out.R.items[1] = <<<<-1, 0, 0>>, <<0, -1, 0>>, <<0, 0, 1>>>>
        /\ cam.out.T.items[1] = <<0, 0, 0>>

\* C7's case: an identity pose went through the conversion and was returned
C7_Witness ==
    /\ cam.pc = "done" /\ ~cam.normalize
    /\ cam.annos[1].R = Identity3 /\ cam.annos[1].T = <<0, 0, 0>>
    /\ ~IsExc(cam.out)
    /\ cam.out.rawR.items[1] = Identity3

(***************************************************************************)
(* The scene directory. A path is the character codes of                   *)
(* SCENE_DIR/<prefix>/<name>, the separator being code 0.                  *)
(***************************************************************************)
\* the name of the k-th image file; names are distinct, one is a proper
\* prefix of another, and their order is not the order of k
NameOf(k) ==
    CASE k = 1 -> <<3>>
      [] k = 2 -> <<2, 3>>
      [] k = 3 -> <<2>>
      [] OTHER -> <<2, 2, k>>

SceneDir == <<7>>

PathOf(k) == SceneDir \o <<0, 8, 0>> \o NameOf(k)

FileIds == 1 .. NumFiles

Files == {PathOf(k) : k \in FileIds}

FileOf(path) == CHOOSE k \in FileIds : PathOf(k) = path

\* the height and width of the image stored in the k-th file
ShapeOf(k) == <<1 + (k % 2), 1 + (k % 3)>>

\* the calibration of the k-th image in sparse/0, as _load_calibration_data
\* reads it
CalibOf(k) ==
    [R |-> IF k % 2 = 1 THEN Identity3
           ELSE <<<<0, -1, 0>>, <<1, 0, 0>>, <<0, 0, 1>>>>,
     T |-> <<k, 0 - k, 1>>,
     focal_length |-> <<k + 1, k + 1>>,
     principal_point |-> <<k, 1>>]

\* a < b for Python strings
RECURSIVE StrLess(_, _)
StrLess(a, b) ==
    IF b = <<>> THEN FALSE
    ELSE IF a = <<>> THEN TRUE
    ELSE IF a[1] # b[1] THEN a[1] < b[1]
    ELSE StrLess(Tail(a), Tail(b))

\* the index of the last separator of a path, 0 if it has none
RECURSIVE LastSep(_, _)
LastSep(path, i) ==
    IF i = 0 THEN 0 ELSE IF path[i] = 0 THEN i ELSE LastSep(path, i - 1)

\* os.path.dirname(path)
dirname(path) == SubSeq(path, 1, LastSep(path, Len(path)) - 1)

\* os.path.basename(path)
basename(path) == SubSeq(path, LastSep(path, Len(path)) + 1, Len(path))

\* image_path.replace("/images", "/masks"): code 8 after a separator becomes 9
MaskPath(path) ==
    [i \in 1 .. Len(path) |->
        IF i > 1 /\ path[i - 1] = 0 /\ path[i] = 8 THEN 9 ELSE path[i]]

(***************************************************************************)
(* sorted(): Python's sort is stable; an insertion sort that puts an       *)
(* element after the elements that are not greater gives the same list.    *)
(***************************************************************************)
RECURSIVE InsertFrame(_, _)
InsertFrame(frames, x) ==
    IF frames = <<>> THEN <<x>>
    ELSE IF StrLess(x.img_path, frames[1].img_path) THEN <<x>> \o frames
    ELSE <<frames[1]>> \o InsertFrame(Tail(frames), x)

RECURSIVE SortFrames(_, _)
SortFrames(done, rest) ==
    IF rest = <<>> THEN done
    ELSE SortFrames(InsertFrame(done, rest[1]), Tail(rest))

\* sorted(annos, key=lambda x: x["img_path"])
sorted_by_path(frames) == SortFrames(<<>>, frames)

\* sorted(img_filenames)
sorted(paths) ==
    LET s == sorted_by_path([i \in 1 .. Len(paths) |-> [img_path |-> paths[i]]])
    IN  [i \in 1 .. Len(paths) |-> s[i].img_path]

(***************************************************************************)
(* DemoLoader.__init__ and _load_images                                    *)
(***************************************************************************)
\* _load_images(img_filenames): one frame record per file, with its
\* calibration when ground truth is loaded
_load_images(img_filenames, load_gt) ==
    [i \in 1 .. Len(img_filenames) |->
        IF load_gt
        THEN LET c == CalibOf(FileOf(img_filenames[i]))
             IN  [img_path |-> img_filenames[i], R |-> c.R, T |-> c.T,
                  focal_length |-> c.focal_length,
                  principal_point |-> c.principal_point]
        ELSE [img_path |-> img_filenames[i]]]

\* every order in which glob.glob can enumerate the files
Listings ==
    {l \in [FileIds -> Files] : \A i, j \in FileIds : i # j => l[i] # l[j]}

\* normalize_cameras is read only when ground truth is loaded
Configs ==
    {c \in [sort_by_filename : BOOLEAN, load_gt : BOOLEAN,
            have_mask : BOOLEAN, normalize_cameras : BOOLEAN] :
        c.load_gt \/ c.normalize_cameras}

Pending == [pending |-> TRUE]

IsPending(v) == "pending" \in DOMAIN v

Init ==
    /\ cfg \in Configs
    /\ listing \in Listings
    /\ sequences = <<>>
    /\ pc = "new"
    /\ ids = NoneVal /\ annos = <<>> /\ result = <<>> /\ order = <<>>
    /\ overtook = FALSE /\ ret = NoneVal /\ normalized = NoneVal
    /\ crop = Idle /\ cam = Idle

\* DemoLoader(SCENE_DIR, ...): lines 64-93
Construct ==
    /\ pc = "new"
    /\ sequences' = _load_images(IF cfg.sort_by_filename THEN sorted(listing)
                                 ELSE listing, cfg.load_gt)
    /\ pc' = "ready"
    /\ UNCHANGED <<cfg, listing, ids, annos, result, order, overtook, ret,
                   normalized, crop, cam>>

(***************************************************************************)
(* The per-frame worker, _load_image_with_anno                             *)
(***************************************************************************)
\* bbox_xyxy_to_xywh(bbox)
bbox_xyxy_to_xywh(bbox) == <<bbox[1], bbox[2], bbox[3] - bbox[1], bbox[4] - bbox[2]>>

\* adjust_camera_to_bbox_crop_: the principal point moves to the crop's
\* origin, the focal length stays
adjust_camera_to_bbox_crop_(fl, pp, image_size, bbox_xywh) ==
    [fl |-> fl, pp |-> <<pp[1] - bbox_xywh[1], pp[2] - bbox_xywh[2]>>]

\* adjust_camera_to_image_scale_: both scale by new size / old size per axis
adjust_camera_to_image_scale_(fl, pp, original_size, new_size) ==
    [fl |-> [i \in 1 .. 2 |-> Frac(fl[i] * new_size[i], original_size)],
     pp |-> [i \in 1 .. 2 |-> Frac(pp[i] * new_size[i], original_size)]]

\* image.size of a numpy array: the number of its elements
ArraySize(a) == a.h * a.w * (IF a.ndim = 3 THEN 3 ELSE 1)

\* lines 222-238
AdjustCamera(anno, image, bbox, load_gt) ==
    IF load_gt
    THEN LET cropped == adjust_camera_to_bbox_crop_(
                            anno.focal_length, anno.principal_point,
                            ArraySize(image), bbox_xyxy_to_xywh(bbox))
         IN  adjust_camera_to_image_scale_(cropped.fl, cropped.pp,
                                           ArraySize(image), <<ImgSize, ImgSize>>)
    ELSE [fl |-> NoneVal, pp |-> NoneVal]

\* _load_image_with_anno(anno); img_ok and mask_ok say whether cv2.imread
\* could read the image file and the mask file (it returns None otherwise)
_load_image_with_anno(anno, have_mask, load_gt, img_ok, mask_ok) ==
    LET image_path == anno.img_path
        shape      == ShapeOf(FileOf(image_path))
        image      == SourceArray(image_path, shape[1], shape[2], 3)
        mask       == IF have_mask /\ mask_ok
                      THEN SourceArray(MaskPath(image_path), shape[1], shape[2], 2)
                      ELSE NoneVal
        r          == pad_and_resize_image(image, TRUE, ImgSize, mask, NoneVal)
        camera     == AdjustCamera(anno, image, r.bbox, load_gt)
    IN  \* cv2.cvtColor(None, ...) raises
        IF ~img_ok THEN Raise("cv2.error")
        ELSE IF IsExc(r) THEN r
        ELSE [image_transformed   |-> r.image_transformed,
              mask_transformed    |-> r.mask_transformed,
              image_path          |-> image_path,
              crop_paras          |-> r.crop_paras,
              new_focal_length    |-> camera.fl,
              new_principal_point |-> camera.pp]

(***************************************************************************)
(* get_data and _prepare_batch                                             *)
(***************************************************************************)
\* get_data without the sort of the selected records
SelectUnsorted(metadata, ids_, sort_by_filename) ==
    IF IsNone(ids_) THEN metadata
    ELSE [i \in 1 .. Len(ids_.list) |-> metadata[ids_.list[i] + 1]]

\* lines 182-190: the records selected by ids (all of them for None), sorted
\* by path when sort_by_filename is set; ids are 0-based
SelectAnnos(metadata, ids_, sort_by_filename) ==
    LET chosen == IF IsNone(ids_) THEN metadata
                  ELSE [i \in 1 .. Len(ids_.list) |-> metadata[ids_.list[i] + 1]]
    IN  IF sort_by_filename THEN sorted_by_path(chosen) ELSE chosen

\* the results in the order the tasks completed
GatherCompletionOrder(results, completed) ==
    [i \in 1 .. Len(results) |-> results[completed[i]]]

\* lines 277-279: Parallel(...)(...) returns the results in the order the
\* tasks were submitted, whatever the order they completed in
Gather(results, completed) == results

\* the indices i with mask_transformed is not None, in order (lines 291-292)
RECURSIVE WithMask(_, _)
WithMask(results, i) ==
    IF i > Len(results) THEN <<>>
    ELSE IF IsNone(results[i].mask_transformed) THEN WithMask(results, i + 1)
    ELSE <<results[i].mask_transformed>> \o WithMask(results, i + 1)

\* _prepare_batch from line 281 on, results being what Parallel returned;
\* every transformed tensor of a call has the same square shape, so stack
\* fails on an empty list only. out is (batch, image_paths) or the exception
\* raised; normalized is what normalize_cameras returned, None if not called.
_prepare_batch(sequence_name, metadata, annos_, results, config, report) ==
    LET n       == Len(results)
        images  == stack([i \in 1 .. n |-> results[i].image_transformed])
        paths   == [i \in 1 .. n |-> results[i].image_path]
        masks   == IF config.have_mask THEN stack(WithMask(results, 1))
                   ELSE NoneVal
        gt      == IF config.load_gt
                   THEN _prepare_gt_camera_batch(
                            annos_,
                            [i \in 1 .. n |-> results[i].new_focal_length],
                            [i \in 1 .. n |-> results[i].new_principal_point],
                            config.normalize_cameras, report)
                   ELSE [out |-> [seq_name |-> sequence_name],
                         normalized |-> NoneVal]
    IN  IF IsExc(images) THEN [out |-> images, normalized |-> NoneVal]
        ELSE IF IsExc(masks) THEN [out |-> masks, normalized |-> NoneVal]
        ELSE IF IsExc(gt.out) THEN gt
        ELSE [out |-> [batch |->
                         [seq_name    |-> sequence_name,
                          frame_num   |-> Len(metadata),
                          image       |-> images,
                          crop_params |-> stack([i \in 1 .. n |-> results[i].crop_paras]),
                          scene_dir   |-> dirname(dirname(paths[1])),
                          masks       |-> masks] @@ gt.out,
                       image_paths |-> paths],
              normalized |-> gt.normalized]

\* the ids a caller passes: None, or a list of valid 0-based indices
IdsArgs ==
    {NoneVal} \cup
    {[list |-> l] : l \in UNION {[1 .. n -> 0 .. NumFiles - 1] : n \in 0 .. MaxIds}}

\* get_data(index=0, ids=..., return_path=True) up to the submission of the
\* per-frame tasks: lines 179-190 and 266-279
GetData ==
    /\ pc = "ready"
    /\ \E ids_ \in IdsArgs :
         /\ ids' = ids_
         /\ annos' = SelectAnnos(sequences, ids_, cfg.sort_by_filename)
    /\ result' = [i \in 1 .. Len(annos') |-> Pending]
    /\ order' = <<>>
    /\ pc' = "running"
    /\ UNCHANGED <<cfg, listing, sequences, overtook, ret, normalized, crop, cam>>

\* what the worker of the i-th submitted record does when the files read as
\* img_ok and mask_ok say (there is a mask file to read only with have_mask)
WorkerOutcome(i, img_ok, mask_ok) ==
    _load_image_with_anno(annos[i], cfg.have_mask, cfg.load_gt, img_ok, mask_ok)

\* one worker returns from _load_image_with_anno; the tasks complete in any
\* order
TaskReturns ==
    /\ pc = "running"
    /\ \E i \in 1 .. Len(result) : \E mask_ok \in BOOLEAN :
         /\ IsPending(result[i])
         /\ cfg.have_mask \/ mask_ok
         /\ LET out == WorkerOutcome(i, TRUE, mask_ok)
            IN  /\ ~IsExc(out)
                /\ result' = [result EXCEPT ![i] = out]
         /\ order' = Append(order, i)
         /\ overtook' = (overtook \/ \E j \in 1 .. i - 1 : IsPending(result[j]))
    /\ UNCHANGED <<cfg, listing, sequences, pc, ids, annos, ret, normalized,
                   crop, cam>>

\* one worker raises in _load_image_with_anno: the exception propagates out
\* of Parallel, _prepare_batch and get_data, and the pool is gone
TaskRaises ==
    /\ pc = "running"
    /\ \E i \in 1 .. Len(result) : \E img_ok \in BOOLEAN : \E mask_ok \in BOOLEAN :
         /\ IsPending(result[i])
         /\ cfg.have_mask \/ mask_ok
         /\ LET out == WorkerOutcome(i, img_ok, mask_ok)
            IN  /\ IsExc(out)
                /\ ret' = out
    /\ pc' = "raised"
    /\ result' = <<>> /\ order' = <<>>
    /\ UNCHANGED <<cfg, listing, sequences, ids, annos, overtook, normalized,
                   crop, cam>>

\* every task returned: Parallel returns the results, _prepare_batch runs
\* from line 281 to its end and get_data returns what it returned, or raises
\* what it raised
PrepareBatch ==
    /\ pc = "running"
    /\ \A i \in 1 .. Len(result) : ~IsPending(result[i])
    /\ \E report \in (IF cfg.load_gt /\ cfg.normalize_cameras /\ Len(result) > 0
                       THEN NormReports(Len(result))
                       ELSE {[zero_scale |-> FALSE, bad |-> NoneVal]}) :
         LET got == _prepare_batch(basename(SceneDir), sequences, annos,
                                   Gather(result, order), cfg, report)
         IN  /\ ret' = got.out
             /\ normalized' = got.normalized
             /\ pc' = IF IsExc(got.out) THEN "raised" ELSE "returned"
    /\ order' = <<>>
    /\ UNCHANGED <<cfg, listing, sequences, ids, annos, result, overtook,
                   crop, cam>>

\* the caller calls get_data again
NextCall ==
    /\ pc \in {"returned", "raised"}
    /\ pc' = "ready"
    /\ ids' = NoneVal /\ annos' = <<>> /\ result' = <<>> /\ overtook' = FALSE
    /\ ret' = NoneVal /\ normalized' = NoneVal
    /\ UNCHANGED <<cfg, listing, sequences, order, crop, cam>>

Next == Construct \/ GetData \/ TaskReturns \/ TaskRaises \/ PrepareBatch \/ NextCall

Spec == Init /\ [][Next]_vars

(***************************************************************************)
(* Claims about get_data, checked under Spec.                              *)
(***************************************************************************)
Returned == pc = "returned"

Finished == pc \in {"returned", "raised"}

\* the number of positions of seq that hold x
Count(seq, x) == Cardinality({i \in 1 .. Len(seq) : seq[i] = x})

\* the files in ascending order of their path
AscendingFiles ==
    CHOOSE l \in Listings : \A i \in 1 .. NumFiles - 1 : StrLess(l[i], l[i + 1])

\* the paths the caller selected, whatever their order: every file for None,
\* else the ids-th files of the ascending list
Selected ==
    IF IsNone(ids) THEN AscendingFiles
    ELSE [i \in 1 .. Len(ids.list) |-> AscendingFiles[ids.list[i] + 1]]

\* C1: with sort_by_filename set, the frames of the returned batch (images,
\* crop_params, image_paths) are in ascending order of their path, and they
\* are the frames the ids select from the ascending file list, whatever the
\* enumeration order of the directory and the order of ids.
C1_SortedFrames ==
    (Returned /\ cfg.sort_by_filename) =>
        LET paths == ret.image_paths
            n     == Len(paths)
        IN  /\ \A i \in 1 .. n - 1 : ~StrLess(paths[i + 1], paths[i])
            /\ \A p \in Files : Count(paths, p) = Count(Selected, p)
            /\ ret.batch.image.n = n
            /\ ret.batch.crop_params.n = n
            /\ \A i \in 1 .. n :
                 /\ ret.batch.image.items[i].from.src = paths[i]
                 /\ ret.batch.crop_params.items[i].height
                        = <<ShapeOf(FileOf(paths[i]))[1], 1>>
                 /\ ret.batch.crop_params.items[i].width
                        = <<ShapeOf(FileOf(paths[i]))[2], 1>>

\* C1's case: the directory was enumerated out of order, the ids were given
\* out of order, and a batch of two frames was returned
C1_Witness ==
    /\ Returned /\ cfg.sort_by_filename
    /\ StrLess(listing[2], listing[1])
    /\ ~IsNone(ids) /\ Len(ids.list) = 2
    /\ StrLess(AscendingFiles[ids.list[2] + 1], AscendingFiles[ids.list[1] + 1])

\* C2: whatever the order the tasks completed in, position i of images,
\* crop_params, image_paths, of the raw rotation/translation batch and of
\* the adjusted focal lengths/principal points derives from the i-th record
\* of the selected list.
C2_SubmissionOrder ==
    Returned =>
        /\ ret.batch.image.n = Len(annos)
        /\ Len(ret.image_paths) = Len(annos)
        /\ \A i \in 1 .. Len(annos) :
             LET shape == ShapeOf(FileOf(annos[i].img_path))
                 alone == _load_image_with_anno(annos[i], FALSE, cfg.load_gt,
                                                TRUE, TRUE)
             IN  /\ ret.image_paths[i] = annos[i].img_path
                 /\ ret.batch.image.items[i].from.src = annos[i].img_path
                 /\ ret.batch.image.items[i].from.h = Max(shape[1], shape[2])
                 /\ ret.batch.crop_params.items[i].height = <<shape[1], 1>>
                 /\ ret.batch.crop_params.items[i].width = <<shape[2], 1>>
                 /\ cfg.load_gt =>
                      /\ ret.batch.rawR.items[i] = annos[i].R
                      /\ ret.batch.rawT.items[i] = annos[i].T
                      /\ ~cfg.normalize_cameras =>
                           /\ ret.batch.fl.items[i] = alone.new_focal_length
                           /\ ret.batch.pp.items[i] = alone.new_principal_point

\* C2's case: a batch with ground truth was returned after a task completed
\* before one submitted earlier, for two different files
C2_Witness ==
    /\ Returned /\ overtook /\ cfg.load_gt /\ ~cfg.normalize_cameras
    /\ Len(annos) >= 2
    /\ annos[1].img_path # annos[2].img_path

\* C3 as claimed: in every returned batch the leading dimension N of images
\* is that of masks (when masks is not None), of crop_params and, with
\* ground truth, of R, T, fl, pp, rawR and rawT.
C3_SameLeadingDimension ==
    Returned =>
        LET b == ret.batch
        IN  /\ IsNone(b.masks) \/ b.masks.n = b.image.n
            /\ b.crop_params.n = b.image.n
            /\ cfg.load_gt =>
                 /\ b.R.n = b.image.n /\ b.T.n = b.image.n
                 /\ b.fl.n = b.image.n /\ b.pp.n = b.image.n
                 /\ b.rawR.n = b.image.n /\ b.rawT.n = b.image.n

\* a worker of the current call could not read its frame's mask
SomeMaskUnread ==
    /\ cfg.have_mask
    /\ \E i \in 1 .. Len(result) :
         ~IsPending(result[i]) /\ IsNone(result[i].mask_transformed)

\* C4 as claimed: when the image or the mask of a frame could not be read,
\* get_data raises and returns no batch. (An unreadable image ends the call
\* in TaskRaises; what is left to check is the mask.)
C4_LoadFailureAborts == SomeMaskUnread => ~Returned

\* C8: with ground truth and camera normalization, a normalizer that reports
\* a zero scale makes get_data raise the normalization error; nothing is
\* returned.
C8_ZeroScaleRaises ==
    (Finished /\ normalized = MinusOne) =>
        /\ pc = "raised"
        /\ ret = ZeroScaleError

\* C8's case: the normalizer reported a zero scale for a batch of two frames
C8_Witness ==
    /\ pc = "raised" /\ normalized = MinusOne
    /\ cfg.load_gt /\ cfg.normalize_cameras
    /\ Len(annos) = 2

\* some component of the normalized translations is one of values
NormalizedTHas(values) ==
    /\ IsCameras(normalized)
    /\ \E i \in 1 .. normalized.T.n : \E j \in 1 .. 3 :
         normalized.T.items[i][j] \in values

C13_FrameNumIsN ==
    Returned => ret.batch.frame_num = ret.batch.image.n

====
